---------------------------- MODULE Spec2Model ----------------------------
(***************************************************************************)
(* A model of orc, a terminal client that reaches .onion services through  *)
(* a local Tor SOCKS5 proxy (src/src/*.rs).                                *)
(*                                                                         *)
(* Text is modelled as Rust holds it.  A &str given to the program is a    *)
(* sequence of Unicode scalar values (its chars()); its len() is the       *)
(* number of bytes of its UTF-8 encoding.  A String or Vec<u8> owned by    *)
(* the program is the sequence of its bytes, 0..255.                       *)
(*                                                                         *)
(* Six specifications share the module:                                    *)
(*   SpecDiscovery  one run of TorClient::new that nothing interrupts      *)
(*   SpecExchange   one stream command that nothing interrupts             *)
(*   SpecHost  validate_onion_host applied to host names                   *)
(*   SpecHex   SensitiveString / SensitiveBytes construction from hex      *)
(*   SpecWipe  secure_wipe_file on one path                                *)
(*   Spec      one run of the process: main, its command handlers, the     *)
(*             panic hook and the Ctrl+C listener                          *)
(***************************************************************************)
EXTENDS Integers, Sequences, FiniteSets, TLC

VARIABLES
    \* ---- SpecHost
    hostIn,      \* the &str handed to validate_onion_host
    hostPc,      \* "call" | "done"
    hostRes,     \* the Result it returned
    \* ---- SpecHex
    hexIn,       \* the &str handed to from_hex
    hexSrc,      \* the bytes hexIn was encoded from, or NoBytes
    hexForm,     \* "string" (SensitiveString) | "bytes" (SensitiveBytes)
    hexPc,       \* "call" | "validated" | "done"
    hexPairs,    \* byte pairs hex::decode has decoded so far
    hexRes,      \* the Result from_hex returned
    hexFreed,    \* the heap storage from_hex released on its way, each as
                 \* the bytes it held when it was released
    \* ---- SpecWipe: the path's file and secure_wipe_file's locals
    wPath0,      \* the path as it was when secure_wipe_file was called
    fsExists,    \* the path names a file
    fsLen,       \* the file's length in bytes
    fsRandom,    \* how many leading bytes hold random data
    fsSynced,    \* every write so far has been flushed to the device
    wPc,         \* "call" | "open" | "seek_end" | "seek_start" | "loop" | "remove" | "done"
    wFileSize,   \* file_size
    wRemaining,  \* remaining
    wOffset,     \* the open file's cursor
    wChunks,     \* the sizes of the completed write_all calls, in order
    wIo,         \* the file-system operations performed, in order
    wRes,        \* the Result returned
    \* ---- Spec: one run of the process
    input,       \* what the run is given: config file, environment, command
                 \* line, and which candidates accept a connection
    pc,          \* where the main task is
    config,      \* the Config that Config::load returned
    disc,        \* TorClient::new: the candidates, the loop index, the
                 \* attempt in flight, the attempts finished
    torClient,   \* the TorClient that TorClient::new returned
    result,      \* what the command handler returned to main
    net,         \* the network operations performed, in order
    wire,        \* the bytes written into the tunnel
    buf,         \* handle_stream's sensitive_data and its backing bytes
    life,        \* "Normal" | "EmergencyShutdown" | "Terminated"
    exit,        \* "running", or how the process ended: "0", "1", "137",
                 \* or "SIGINT" when the signal's default action killed it
    hook,        \* the panic hook is set
    listener,    \* the Ctrl+C task: "none" | "spawned" | "listening" | "failed"
    sigint,      \* the operator's interrupt has been delivered
    emBy         \* what started the emergency path: "none" | "fault" | "interrupt"

hostVars == <<hostIn, hostPc, hostRes>>
hexVars  == <<hexIn, hexSrc, hexForm, hexPc, hexPairs, hexRes, hexFreed>>
fsVars   == <<fsExists, fsLen, fsRandom, fsSynced>>
wipeVars == <<wPath0, fsVars, wPc, wFileSize, wRemaining, wOffset, wChunks, wIo, wRes>>
mainVars == <<input, pc, config, disc, torClient, result, net, wire, buf,
              life, exit, hook, listener, sigint, emBy>>
vars     == <<hostVars, hexVars, wipeVars, mainVars>>

\* what the actions of one specification leave alone
HostFrame == UNCHANGED <<hexVars, wipeVars, mainVars>>
HexFrame  == UNCHANGED <<hostVars, wipeVars, mainVars>>
WipeFrame == UNCHANGED <<hostVars, hexVars, mainVars, wPath0>>
MainFrame == UNCHANGED <<hostVars, hexVars, wipeVars>>

-----------------------------------------------------------------------------
(* Bounds of the model. *)

\* longest segment, in chars, put before the suffix of a host name
MaxSeg == 57
\* longest hex input, in chars
MaxHexLen == 4
\* longest file handed to secure_wipe_file, in bytes
MaxFileLen == 10000

-----------------------------------------------------------------------------
(* Text helpers. *)

Byte == 0..255

Max(a, b) == IF a > b THEN a ELSE b
Min(a, b) == IF a < b THEN a ELSE b

RECURSIVE SumSeq(_)
SumSeq(s) == IF s = <<>> THEN 0 ELSE Head(s) + SumSeq(Tail(s))

\* char::len_utf8
Utf8Len(c) == IF c < 128 THEN 1 ELSE IF c < 2048 THEN 2 ELSE IF c < 65536 THEN 3 ELSE 4

\* str::len: the length in bytes
StrLen(s) == SumSeq([i \in 1..Len(s) |-> Utf8Len(s[i])])

\* the UTF-8 encoding of one char
Utf8Char(c) ==
    IF c < 128 THEN <<c>>
    ELSE IF c < 2048 THEN <<192 + (c \div 64), 128 + (c % 64)>>
    ELSE IF c < 65536 THEN
        <<224 + (c \div 4096), 128 + ((c \div 64) % 64), 128 + (c % 64)>>
    ELSE <<240 + (c \div 262144), 128 + ((c \div 4096) % 64),
           128 + ((c \div 64) % 64), 128 + (c % 64)>>

\* str::as_bytes of a &str given as chars
RECURSIVE Utf8Encode(_)
Utf8Encode(s) == IF s = <<>> THEN <<>> ELSE Utf8Char(Head(s)) \o Utf8Encode(Tail(s))

\* str::ends_with / str::starts_with for an ASCII pattern
EndsWith(s, pat) ==
    /\ Len(s) >= Len(pat)
    /\ SubSeq(s, Len(s) - Len(pat) + 1, Len(s)) = pat

StartsWith(s, pat) ==
    /\ Len(s) >= Len(pat)
    /\ SubSeq(s, 1, Len(pat)) = pat

\* str::strip_suffix(..).unwrap(), called only when EndsWith holds
StripSuffix(s, pat) == SubSeq(s, 1, Len(s) - Len(pat))

\* char::is_ascii_alphanumeric
is_ascii_alphanumeric(c) == c \in (48..57) \cup (65..90) \cup (97..122)

\* char::is_ascii_hexdigit
is_ascii_hexdigit(c) == c \in (48..57) \cup (65..70) \cup (97..102)

\* ".onion"
DotOnion == <<46, 111, 110, 105, 111, 110>>

Ok == [ok |-> TRUE]
Err(kind, why) == [ok |-> FALSE, kind |-> kind, why |-> why]

-----------------------------------------------------------------------------
(* security.rs: validate_onion_host *)

V2Len == 16
V3Len == 56

\* the loop of lines 119-125 without its body's test
validate_onion_host_no_char_check(host) ==
    IF ~EndsWith(host, DotOnion) THEN Err("InvalidHex", "not_onion")
    ELSE LET domain_part == StripSuffix(host, DotOnion) IN
         IF StrLen(domain_part) # V2Len /\ StrLen(domain_part) # V3Len
         THEN Err("InvalidHex", "length")
         ELSE Ok

validate_onion_host(host) ==
    IF ~EndsWith(host, DotOnion) THEN Err("InvalidHex", "not_onion")
    ELSE LET domain_part == StripSuffix(host, DotOnion) IN
         IF StrLen(domain_part) # V2Len /\ StrLen(domain_part) # V3Len
         THEN Err("InvalidHex", "length")
         ELSE IF \E i \in 1..Len(domain_part) : ~is_ascii_alphanumeric(domain_part[i])
         THEN Err("InvalidHex", "character")
         ELSE Ok


-----------------------------------------------------------------------------
(* The hex crate, as security.rs calls it: hex::decode and hex::encode. *)

\* one hex digit's value, -1 for a byte that is none
hex_val(b) ==
    IF b \in 48..57 THEN b - 48
    ELSE IF b \in 65..70 THEN b - 55
    ELSE IF b \in 97..102 THEN b - 87
    ELSE -1

HexPairOk(v, k) == hex_val(v[2 * k - 1]) >= 0 /\ hex_val(v[2 * k]) >= 0

\* hex::decode on the bytes of its argument: an odd length is refused first,
\* then the pairs are decoded in order up to the first byte that is no hex
\* digit.  pairs counts the pairs decoded when it returned.
hex_decode(v) ==
    IF Len(v) % 2 # 0 THEN [ok |-> FALSE, why |-> "OddLength", pairs |-> 0, data |-> <<>>]
    ELSE LET n == Len(v) \div 2
             bad == {k \in 1..n : ~HexPairOk(v, k)}
         IN  IF bad = {}
             THEN [ok |-> TRUE, why |-> "", pairs |-> n,
                   data |-> [k \in 1..n |-> 16 * hex_val(v[2 * k - 1]) + hex_val(v[2 * k])]]
             ELSE LET first == CHOOSE k \in bad : \A j \in bad : k <= j
                  IN  [ok |-> FALSE, why |-> "InvalidHexCharacter",
                       pairs |-> first - 1, data |-> <<>>]

\* a lower-case hex digit as a char
HexDigit(n) == IF n < 10 THEN 48 + n ELSE 87 + n

\* hex::encode
RECURSIVE hex_encode(_)
hex_encode(b) ==
    IF b = <<>> THEN <<>>
    ELSE <<HexDigit(Head(b) \div 16), HexDigit(Head(b) % 16)>> \o hex_encode(Tail(b))

-----------------------------------------------------------------------------
(* String::from_utf8_lossy, security.rs line 41 (core::str::lossy).        *)

safe_get(v, i) == IF i <= Len(v) THEN v[i] ELSE 0

utf8_char_width(b) ==
    IF b < 128 THEN 1
    ELSE IF b \in 194..223 THEN 2
    ELSE IF b \in 224..239 THEN 3
    ELSE IF b \in 240..244 THEN 4
    ELSE 0

IsCont(b) == b \in 128..191

\* the second byte a three- or four-byte lead admits
SecondOk(first, second) ==
    \/ first = 224 /\ second \in 160..191
    \/ first \in 225..236 /\ second \in 128..191
    \/ first = 237 /\ second \in 128..159
    \/ first \in 238..239 /\ second \in 128..191
    \/ first = 240 /\ second \in 144..191
    \/ first \in 241..243 /\ second \in 128..191
    \/ first = 244 /\ second \in 128..143

\* One step of Utf8Chunks from position i: whether a whole char was read, and
\* the position after the bytes consumed (a broken sequence consumes its
\* maximal valid prefix, one byte at least).
Utf8Step(v, i) ==
    LET w == utf8_char_width(v[i]) IN
    IF w = 1 THEN [valid |-> TRUE, next |-> i + 1]
    ELSE IF w = 2 THEN
        IF IsCont(safe_get(v, i + 1)) THEN [valid |-> TRUE, next |-> i + 2]
        ELSE [valid |-> FALSE, next |-> i + 1]
    ELSE IF w = 3 THEN
        IF ~SecondOk(v[i], safe_get(v, i + 1)) THEN [valid |-> FALSE, next |-> i + 1]
        ELSE IF ~IsCont(safe_get(v, i + 2)) THEN [valid |-> FALSE, next |-> i + 2]
        ELSE [valid |-> TRUE, next |-> i + 3]
    ELSE IF w = 4 THEN
        IF ~SecondOk(v[i], safe_get(v, i + 1)) THEN [valid |-> FALSE, next |-> i + 1]
        ELSE IF ~IsCont(safe_get(v, i + 2)) THEN [valid |-> FALSE, next |-> i + 2]
        ELSE IF ~IsCont(safe_get(v, i + 3)) THEN [valid |-> FALSE, next |-> i + 3]
        ELSE [valid |-> TRUE, next |-> i + 4]
    ELSE [valid |-> FALSE, next |-> i + 1]

\* U+FFFD in UTF-8
Replacement == <<239, 191, 189>>

RECURSIVE LossyFrom(_, _)
LossyFrom(v, i) ==
    IF i > Len(v) THEN <<>>
    ELSE LET st == Utf8Step(v, i) IN
         (IF st.valid THEN SubSeq(v, i, st.next - 1) ELSE Replacement)
             \o LossyFrom(v, st.next)

\* String::from_utf8_lossy(&bytes).to_string(): the String's bytes
from_utf8_lossy(v) == LossyFrom(v, 1)

-----------------------------------------------------------------------------
(* security.rs: SensitiveString and SensitiveBytes.  A buffer is its backing *)
(* bytes.                                                                    *)

\* lines 27-35: the checks SensitiveString::from_hex makes before it decodes
string_from_hex_validate(hex) ==
    IF StrLen(hex) % 2 # 0 THEN Err("InvalidHex", "odd_length")
    ELSE IF \E i \in 1..Len(hex) : ~is_ascii_hexdigit(hex[i])
    THEN Err("InvalidHex", "character")
    ELSE Ok

\* what lines 38-42 release when they return: `bytes`, the Vec<u8> that
\* hex::decode returned, is dropped as it is at the end of the function;
\* from_utf8_lossy borrows it when it is valid UTF-8 and otherwise builds a
\* String of its own, which is dropped as it is once to_string() has copied
\* it into `data`
from_hex_temporaries(bytes) ==
    IF from_utf8_lossy(bytes) = bytes THEN <<bytes>>
    ELSE <<from_utf8_lossy(bytes), bytes>>

\* lines 38-42: decode, then from_utf8_lossy, then Self::new
string_from_hex_decode(hex) ==
    LET d == hex_decode(Utf8Encode(hex)) IN
    IF ~d.ok THEN [res |-> Err("InvalidHex", d.why), pairs |-> d.pairs, freed |-> <<>>]
    ELSE [res |-> [ok |-> TRUE, data |-> from_utf8_lossy(d.data)], pairs |-> d.pairs,
          freed |-> from_hex_temporaries(d.data)]

\* SensitiveString::from_hex as one call
string_from_hex(hex) ==
    LET v == string_from_hex_validate(hex) IN
    IF ~v.ok THEN [res |-> v, pairs |-> 0, freed |-> <<>>] ELSE string_from_hex_decode(hex)

\* SensitiveBytes::from_hex, lines 82-86: the Vec<u8> of hex::decode is
\* moved into the buffer, nothing is released
bytes_from_hex(hex) ==
    LET d == hex_decode(Utf8Encode(hex)) IN
    IF ~d.ok THEN [res |-> Err("InvalidHex", d.why), pairs |-> d.pairs, freed |-> <<>>]
    ELSE [res |-> [ok |-> TRUE, data |-> d.data], pairs |-> d.pairs, freed |-> <<>>]

\* SensitiveString::expose_bytes / expose, SensitiveBytes::expose: a view of
\* the backing bytes
expose_bytes(b) == b.data

-----------------------------------------------------------------------------
(* security.rs: secure_wipe_file, lines 185-221.  Every file-system call can *)
(* fail; `?` then returns the error at once.                                 *)

\* vec![0u8; 4096]
ChunkSize == 4096

IoErr == Err("SecureWipeError", "io")

\* line 208 with the whole remainder written in one call
to_write_unbounded(remaining) == remaining

\* line 208: min(remaining, buffer.len())
to_write(remaining) == Min(remaining, ChunkSize)

\* the function without lines 190-192
wipe_entry_no_exists_check(exists) == "open"

\* lines 190-192: a path that does not exist ends the call
wipe_entry(exists) == IF ~exists THEN "return_ok" ELSE "open"

\* a return that goes on to delete the path whatever res is
WipeReturn_then_remove(res) ==
    /\ wPc' = "remove"
    /\ wRes' = res

\* `?` on an Err, and the Ok(()) of lines 191 and 220: the call is over
WipeReturn(res) ==
    /\ wPc' = "done"
    /\ wRes' = res

\* lines 190-192: path.exists()
W_Exists ==
    /\ wPc = "call"
    /\ wIo' = Append(wIo, "exists")
    /\ IF wipe_entry(fsExists) = "open"
       THEN wPc' = "open" /\ UNCHANGED wRes
       ELSE WipeReturn(Ok)
    /\ UNCHANGED <<fsVars, wFileSize, wRemaining, wOffset, wChunks>>
    /\ WipeFrame

\* lines 194-196: OpenOptions::new().write(true).open(path)?  Without
\* create(true) only a file that exists can be opened.
W_Open ==
    /\ wPc = "open"
    /\ wIo' = Append(wIo, "open")
    /\ \/ fsExists /\ wPc' = "seek_end" /\ wOffset' = 0 /\ UNCHANGED wRes
       \/ WipeReturn(IoErr) /\ UNCHANGED wOffset
    /\ UNCHANGED <<fsVars, wFileSize, wRemaining, wChunks>>
    /\ WipeFrame

\* line 199: file.seek(SeekFrom::End(0))?
W_SeekEnd ==
    /\ wPc = "seek_end"
    /\ wIo' = Append(wIo, "seek")
    /\ \/ /\ wPc' = "seek_start"
          /\ wFileSize' = fsLen
          /\ wOffset' = fsLen
          /\ UNCHANGED wRes
       \/ WipeReturn(IoErr) /\ UNCHANGED <<wFileSize, wOffset>>
    /\ UNCHANGED <<fsVars, wRemaining, wChunks>>
    /\ WipeFrame

\* lines 200-206: file.seek(SeekFrom::Start(0))?, then remaining = file_size
W_SeekStart ==
    /\ wPc = "seek_start"
    /\ wIo' = Append(wIo, "seek")
    /\ \/ /\ wPc' = "loop"
          /\ wOffset' = 0
          /\ wRemaining' = wFileSize
          /\ UNCHANGED wRes
       \/ WipeReturn(IoErr) /\ UNCHANGED <<wOffset, wRemaining>>
    /\ UNCHANGED <<fsVars, wFileSize, wChunks>>
    /\ WipeFrame

\* what n bytes written at the cursor do to the file
FileWrite(n) ==
    /\ fsLen' = Max(fsLen, wOffset + n)
    /\ fsRandom' = Max(fsRandom, wOffset + n)
    /\ fsSynced' = (n = 0 /\ fsSynced)
    /\ wOffset' = wOffset + n
    /\ UNCHANGED fsExists

\* lines 207-212: one turn of the loop.  write_all either writes the whole
\* chunk or fails after part of it.
W_Write ==
    /\ wPc = "loop"
    /\ wRemaining > 0
    /\ wIo' = Append(wIo, "write")
    /\ LET n == to_write(wRemaining) IN
       \/ /\ FileWrite(n)
          /\ wChunks' = Append(wChunks, n)
          /\ wRemaining' = wRemaining - n
          /\ UNCHANGED <<wPc, wRes>>
       \/ /\ \E part \in {0, n \div 2} : FileWrite(part)
          /\ WipeReturn(IoErr)
          /\ UNCHANGED <<wChunks, wRemaining>>
    /\ UNCHANGED wFileSize
    /\ WipeFrame

\* lines 214-215: file.sync_all()?, drop(file)
W_Sync ==
    /\ wPc = "loop"
    /\ wRemaining = 0
    /\ wIo' = Append(wIo, "sync")
    /\ \/ wPc' = "remove" /\ fsSynced' = TRUE /\ UNCHANGED wRes
       \/ WipeReturn(IoErr) /\ UNCHANGED fsSynced
    /\ UNCHANGED <<fsExists, fsLen, fsRandom, wFileSize, wRemaining, wOffset, wChunks>>
    /\ WipeFrame

\* lines 218-220: std::fs::remove_file(path)?, Ok(())
W_Remove ==
    /\ wPc = "remove"
    /\ wIo' = Append(wIo, "remove")
    /\ \/ fsExists' = FALSE /\ WipeReturn(Ok)
       \/ WipeReturn(IoErr) /\ UNCHANGED fsExists
    /\ UNCHANGED <<fsLen, fsRandom, fsSynced, wFileSize, wRemaining, wOffset, wChunks>>
    /\ WipeFrame

-----------------------------------------------------------------------------
(* Numbers and addresses as the standard library parses them. *)

IsDigit(c) == c \in 48..57

RECURSIVE DecValue(_)
DecValue(s) == IF s = <<>> THEN 0 ELSE 10 * DecValue(SubSeq(s, 1, Len(s) - 1)) + (s[Len(s)] - 48)

\* str::parse::<u16>: an optional '+', then digits, the value at most 65535
parse_u16(s) ==
    LET digits == IF s # <<>> /\ s[1] = 43 THEN Tail(s) ELSE s IN
    IF digits = <<>> \/ \E i \in 1..Len(digits) : ~IsDigit(digits[i])
    THEN [ok |-> FALSE, val |-> 0]
    ELSE IF Len(digits) > 5 \/ DecValue(digits) > 65535
    THEN [ok |-> FALSE, val |-> 0]
    ELSE [ok |-> TRUE, val |-> DecValue(digits)]

\* s cut at every c
RECURSIVE Split(_, _)
Split(s, c) ==
    IF \A i \in 1..Len(s) : s[i] # c THEN <<s>>
    ELSE LET k == CHOOSE i \in 1..Len(s) : s[i] = c /\ \A j \in 1..(i - 1) : s[j] # c
         IN  <<SubSeq(s, 1, k - 1)>> \o Split(SubSeq(s, k + 1, Len(s)), c)

\* one octet of a dotted quad: one to three digits, no leading zero, at most 255
IsOctet(s) ==
    /\ Len(s) \in 1..3
    /\ \A i \in 1..Len(s) : IsDigit(s[i])
    /\ Len(s) > 1 => s[1] # 48
    /\ DecValue(s) <= 255

\* Ipv4Addr::from_str
IsIpv4(host) ==
    LET parts == Split(host, 46) IN
    Len(parts) = 4 /\ \A i \in 1..4 : IsOctet(parts[i])

\* tor.rs lines 42-44: format!("{}:{}", host, port).parse::<SocketAddr>().
\* The hosts of this model hold no bracketed IPv6 literal, so the address
\* parses exactly when the host is a dotted quad.
ParsesAsSocketAddr(host) == IsIpv4(host)

-----------------------------------------------------------------------------
(* config.rs *)

\* "127.0.0.1"
Loopback == <<49, 50, 55, 46, 48, 46, 48, 46, 49>>

DefaultSocksPort == 9150
TorBrowserPort == 9150
SystemTorPort == 9050

\* Config::default, lines 24-33
Config_default == [socks_host |-> Loopback, socks_port |-> DefaultSocksPort]

\* Config::validate, lines 78-88
Config_validate(c) ==
    IF c.socks_host = <<>> THEN Err("Invalid", "empty_host")
    ELSE IF c.socks_port = 0 THEN Err("Invalid", "zero_port")
    ELSE Ok

\* Config::load with the environment consulted only when no file gave a value
Config_load_file_wins(in) ==
    IF in.file.state = "bad_json" THEN [res |-> Err("Json", "parse"), config |-> Config_default]
    ELSE
      LET fromFile == in.file.state = "ok"
          c0 == IF fromFile
                THEN [socks_host |-> in.file.socks_host, socks_port |-> in.file.socks_port]
                ELSE Config_default
          c1 == IF in.envHost.set /\ ~fromFile THEN [c0 EXCEPT !.socks_host = in.envHost.val] ELSE c0
          p  == parse_u16(in.envPort.val)
      IN  IF in.envPort.set /\ ~p.ok
          THEN [res |-> Err("Invalid", "env_port"), config |-> c1]
          ELSE LET c2 == IF in.envPort.set /\ ~fromFile THEN [c1 EXCEPT !.socks_port = p.val] ELSE c1
               IN  [res |-> Config_validate(c2), config |-> c2]

\* Config::load, lines 37-69: the file, then the environment over it, then
\* validate.  in.file.state is "absent", "bad_json" or "ok".
Config_load(in) ==
    IF in.file.state = "bad_json" THEN [res |-> Err("Json", "parse"), config |-> Config_default]
    ELSE
      LET c0 == IF in.file.state = "ok"
                THEN [socks_host |-> in.file.socks_host, socks_port |-> in.file.socks_port]
                ELSE Config_default
          c1 == IF in.envHost.set THEN [c0 EXCEPT !.socks_host = in.envHost.val] ELSE c0
          p  == parse_u16(in.envPort.val)
      IN  IF in.envPort.set /\ ~p.ok
          THEN [res |-> Err("Invalid", "env_port"), config |-> c1]
          ELSE LET c2 == IF in.envPort.set THEN [c1 EXCEPT !.socks_port = p.val] ELSE c1
               IN  [res |-> Config_validate(c2), config |-> c2]

\* Config::get_proxy_addresses, lines 103-112
get_proxy_addresses(c) ==
    << <<c.socks_host, c.socks_port>>,
       <<Loopback, TorBrowserPort>>,
       <<Loopback, SystemTorPort>> >>

-----------------------------------------------------------------------------
(* tor.rs: TorClient::test_proxy and the loop of TorClient::new *)

\* test_proxy, lines 41-55, with a timeout taken for a connection
test_proxy_timeout_ok(host, port, outcome) ==
    IF ~ParsesAsSocketAddr(host) THEN Err("AddressResolution", "parse")
    ELSE IF outcome \in {"connected", "timeout"} THEN Ok
    ELSE Err("ConnectionFailed", "refused")

\* test_proxy, lines 41-55.  outcome is what the timed connect does:
\* "connected", "refused" or "timeout".
test_proxy(host, port, outcome) ==
    IF ~ParsesAsSocketAddr(host) THEN Err("AddressResolution", "parse")
    ELSE IF outcome = "connected" THEN Ok
    ELSE IF outcome = "refused" THEN Err("ConnectionFailed", "refused")
    ELSE Err("ConnectionFailed", "timeout")

NoClient == [some |-> FALSE, host |-> <<>>, port |-> 0]

-----------------------------------------------------------------------------
(* security.rs: validate_onion_url, lines 131-149, and url::Url::parse as it *)
(* treats an http or https URL                                               *)

\* "http://", "https://"
HttpPrefix == <<104, 116, 116, 112, 58, 47, 47>>
HttpsPrefix == <<104, 116, 116, 112, 115, 58, 47, 47>>

\* s up to the first char of stops
UpTo(s, stops) ==
    IF \A i \in 1..Len(s) : s[i] \notin stops THEN s
    ELSE LET k == CHOOSE i \in 1..Len(s) :
                    s[i] \in stops /\ \A j \in 1..(i - 1) : s[j] \notin stops
         IN  SubSeq(s, 1, k - 1)

\* s after the last c, or s when it holds none
AfterLast(s, c) ==
    IF \A i \in 1..Len(s) : s[i] # c THEN s
    ELSE LET k == CHOOSE i \in 1..Len(s) :
                    s[i] = c /\ \A j \in (i + 1)..Len(s) : s[j] # c
         IN  SubSeq(s, k + 1, Len(s))

ToAsciiLower(c) == IF c \in 65..90 THEN c + 32 ELSE c

\* the code points a host may not hold: controls, space, and the delimiters
ForbiddenHostChars == (0..32) \cup {35, 37, 47, 58, 60, 62, 63, 64, 91, 92, 93, 94, 124}

\* Url::parse(url).host_str() for a URL that starts with http:// or
\* https://: the authority ends at '/', '\', '?' or '#'; the user info up to
\* the last '@' and the port after ':' are dropped; the host is lower-cased.
\* An empty host, a host with a forbidden code point, and a port that is no
\* number fail the parse.
url_host(url) ==
    LET rest == IF StartsWith(url, HttpsPrefix)
                THEN SubSeq(url, Len(HttpsPrefix) + 1, Len(url))
                ELSE SubSeq(url, Len(HttpPrefix) + 1, Len(url))
        authority == UpTo(rest, {47, 92, 63, 35})
        hostport == AfterLast(authority, 64)
        h == UpTo(hostport, {58})
        portPart == SubSeq(hostport, Min(Len(h) + 2, Len(hostport) + 1), Len(hostport))
    IN  IF h = <<>> \/ \E i \in 1..Len(h) : h[i] \in ForbiddenHostChars
        THEN [ok |-> FALSE, host |-> <<>>]
        ELSE IF portPart # <<>> /\ ~parse_u16(portPart).ok
        THEN [ok |-> FALSE, host |-> <<>>]
        ELSE [ok |-> TRUE, host |-> [i \in 1..Len(h) |-> ToAsciiLower(h[i])]]

\* validate_onion_url without its checks
validate_onion_url_accept_all(url) == Ok

validate_onion_url(url) ==
    IF ~StartsWith(url, HttpPrefix) /\ ~StartsWith(url, HttpsPrefix)
    THEN Err("InvalidHex", "scheme")
    ELSE LET u == url_host(url) IN
         IF ~u.ok THEN Err("InvalidHex", "url_parse")
         ELSE validate_onion_host(u.host)

-----------------------------------------------------------------------------
(* security.rs: the wipe of a sensitive buffer.  A buffer is "none" before   *)
(* it is built, "live" while owned, "freed" once dropped; data are the bytes *)
(* of its backing storage, as they are now or were when it was freed.        *)

NoBuf == [state |-> "none", data |-> <<>>, len |-> 0]

AllZero(data) == \A i \in 1..Len(data) : data[i] = 0

\* SensitiveString::expose, lines 45-47: the contents of the String, the
\* first len bytes of its storage
expose(b) == SubSeq(b.data, 1, b.len)

\* a wipe that empties the String and leaves its storage as it is
zeroize_clear_only(b) == [b EXCEPT !.len = 0]

\* Zeroize for SensitiveString, lines 60-64: String::zeroize overwrites the
\* storage with zeros and sets the length to 0
zeroize(b) == [b EXCEPT !.data = [i \in 1..Len(b.data) |-> 0], !.len = 0]

\* a Drop that frees the storage as it is
drop_sensitive_no_wipe(b) == [b EXCEPT !.state = "freed"]

\* Drop for SensitiveString, lines 54-58: zeroize, then the storage is freed
drop_sensitive(b) == [zeroize(b) EXCEPT !.state = "freed"]

-----------------------------------------------------------------------------
(* main.rs: one run of the process.  The main task runs on the thread that   *)
(* entered the runtime; the Ctrl+C task runs on a worker thread beside it.   *)
(* A step of the main task runs from one await or call boundary to the next. *)

\* the main task can take a step: the process is alive and the main thread
\* is not inside the panic hook
MainRuns == life = "Normal" \/ (life = "EmergencyShutdown" /\ emBy = "interrupt")

\* process::exit(code) called by the main task
ProcessExit(code) ==
    /\ life' = "Terminated"
    /\ exit' = code

\* main.rs line 16, security.rs lines 152-171: the hook is set and the
\* Ctrl+C task is spawned; the task has not run yet
M_Install ==
    /\ MainRuns
    /\ pc = "start"
    /\ hook' = TRUE
    /\ listener' = "spawned"
    /\ pc' = "load"
    /\ UNCHANGED <<input, config, disc, torClient, result, net, wire, buf,
                   life, exit, sigint, emBy>>
    /\ MainFrame

\* main.rs lines 75-81
M_LoadConfig ==
    /\ MainRuns
    /\ pc = "load"
    /\ LET r == Config_load(input) IN
       IF r.res.ok
       THEN config' = r.config /\ pc' = "discover" /\ UNCHANGED <<life, exit>>
       ELSE ProcessExit("1") /\ UNCHANGED <<config, pc>>
    /\ UNCHANGED <<input, disc, torClient, result, net, wire, buf,
                   hook, listener, sigint, emBy>>
    /\ MainFrame

\* tor.rs lines 28-29
T_New ==
    /\ MainRuns
    /\ pc = "discover"
    /\ disc' = [state |-> "trying", addresses |-> get_proxy_addresses(config),
                idx |-> 1, inflight |-> 0, attempts |-> <<>>]
    /\ pc' = "try"
    /\ UNCHANGED <<input, config, torClient, result, net, wire, buf,
                   life, exit, hook, listener, sigint, emBy>>
    /\ MainFrame

\* tor.rs lines 31-32: the loop calls test_proxy on the next candidate
T_Begin ==
    /\ MainRuns
    /\ pc = "try"
    /\ disc.inflight = 0
    /\ disc.idx <= Len(disc.addresses)
    /\ disc' = [disc EXCEPT !.inflight = disc.idx]
    /\ UNCHANGED <<input, pc, config, torClient, result, net, wire, buf,
                   life, exit, hook, listener, sigint, emBy>>
    /\ MainFrame

\* the loop never returns the candidate that answered
returns_never(res) == FALSE

\* tor.rs lines 32-34: `if Self::test_proxy(..).await.is_ok() { return Ok(..) }`
returns_client(res) == res.ok

\* the loop with an address that does not parse ending the whole discovery
next_candidate_abort_on_bad_address(idx, n, res) ==
    IF res.kind = "AddressResolution" THEN n + 1 ELSE idx + 1

\* the loop trying the candidate that failed once more
next_candidate_same_again(idx, n, res) == idx

\* tor.rs line 31: a candidate that failed, for whatever reason, is followed
\* by the next element of the list (n is the length of the list)
next_candidate(idx, n, res) == idx + 1

\* what the timed connect to candidate i can do
Outcomes(i) == IF input.reach[i] THEN {"connected"} ELSE {"refused", "timeout"}

Probe(addr, outcome) == [op |-> "probe", target |-> addr, opened |-> (outcome = "connected")]

\* tor.rs lines 32-34 and 41-55: test_proxy returns; Ok ends the loop
T_End ==
    /\ MainRuns
    /\ pc = "try"
    /\ disc.inflight # 0
    /\ \E outcome \in Outcomes(disc.inflight) :
         LET a == disc.addresses[disc.inflight]
             res == test_proxy(a[1], a[2], outcome)
             done == Append(disc.attempts, [idx |-> disc.inflight, res |-> res])
         IN  /\ net' = IF ParsesAsSocketAddr(a[1]) THEN Append(net, Probe(a, outcome)) ELSE net
             /\ IF returns_client(res)
                THEN /\ torClient' = [some |-> TRUE, host |-> a[1], port |-> a[2]]
                     /\ disc' = [disc EXCEPT !.state = "found", !.inflight = 0,
                                             !.attempts = done]
                     /\ pc' = "dispatch"
                ELSE /\ disc' = [disc EXCEPT
                                    !.idx = next_candidate(disc.idx, Len(disc.addresses), res),
                                    !.inflight = 0, !.attempts = done]
                     /\ UNCHANGED <<torClient, pc>>
    /\ UNCHANGED <<input, config, result, wire, buf,
                   life, exit, hook, listener, sigint, emBy>>
    /\ MainFrame

\* tor.rs line 37, main.rs lines 86-93: no candidate is left
M_NoProxy ==
    /\ MainRuns
    /\ pc = "try"
    /\ disc.inflight = 0
    /\ disc.idx > Len(disc.addresses)
    /\ disc' = [disc EXCEPT !.state = "exhausted"]
    /\ ProcessExit("1")
    /\ UNCHANGED <<input, pc, config, torClient, result, net, wire, buf,
                   hook, listener, sigint, emBy>>
    /\ MainFrame

\* main.rs lines 88-90: the addresses that the message printed when
\* TorClient::new returns an error names, 127.0.0.1:9150 and 127.0.0.1:9050;
\* line 91 adds how to set another address (ORC_SOCKS_HOST/ORC_SOCKS_PORT)
NoProxyMessageAddresses == { <<Loopback, TorBrowserPort>>, <<Loopback, SystemTorPort>> }

\* main.rs lines 101-114
M_Dispatch ==
    /\ MainRuns
    /\ pc = "dispatch"
    /\ IF input.cmd.kind = "none"
       THEN ProcessExit("1") /\ UNCHANGED pc
       ELSE /\ pc' = CASE input.cmd.kind = "check" -> "check"
                       [] input.cmd.kind = "fetch" -> "f_validate"
                       [] input.cmd.kind = "stream" -> "s_port"
            /\ UNCHANGED <<life, exit>>
    /\ UNCHANGED <<input, config, disc, torClient, result, net, wire, buf,
                   hook, listener, sigint, emBy>>
    /\ MainFrame

\* a handler returns res to main
Return(res) ==
    /\ result' = res
    /\ pc' = "result"

\* main.rs lines 131-140, tor.rs lines 58-62: test_connectivity
H_Check ==
    /\ MainRuns
    /\ pc = "check"
    /\ \E outcome \in {"connected", "refused", "timeout"} :
         LET a == <<torClient.host, torClient.port>>
             res == test_proxy(a[1], a[2], outcome)
         IN  /\ net' = Append(net, Probe(a, outcome))
             /\ IF res.ok THEN pc' = "check_print" /\ UNCHANGED result
                ELSE Return(res)
    /\ UNCHANGED <<input, config, disc, torClient, wire, buf,
                   life, exit, hook, listener, sigint, emBy>>
    /\ MainFrame

\* main.rs lines 133-134
H_CheckPrint ==
    /\ MainRuns
    /\ pc = "check_print"
    /\ Return(Ok)
    /\ UNCHANGED <<input, config, disc, torClient, net, wire, buf,
                   life, exit, hook, listener, sigint, emBy>>
    /\ MainFrame

\* http.rs line 32
F_Validate ==
    /\ MainRuns
    /\ pc = "f_validate"
    /\ LET r == validate_onion_url(input.cmd.url) IN
       IF r.ok THEN pc' = "f_client" /\ UNCHANGED result
       ELSE Return(Err("SecurityValidation", r.why))
    /\ UNCHANGED <<input, config, disc, torClient, net, wire, buf,
                   life, exit, hook, listener, sigint, emBy>>
    /\ MainFrame

\* http.rs line 35, tor.rs lines 80-94
F_Client ==
    /\ MainRuns
    /\ pc = "f_client"
    /\ \/ pc' = "f_send" /\ UNCHANGED result
       \/ Return(Err("TorClient", "http_client"))
    /\ UNCHANGED <<input, config, disc, torClient, net, wire, buf,
                   life, exit, hook, listener, sigint, emBy>>
    /\ MainFrame

Request(url, ok) == [op |-> "http", target |-> url, opened |-> ok]

\* where a response with a 3xx status can send the client: "http://a.io",
\* and "http://aaaaaaaaaaaaaaaa.onion/"
RedirectTargets ==
    { <<104, 116, 116, 112, 58, 47, 47, 97, 46, 105, 111>>,
      HttpPrefix \o [i \in 1..V2Len |-> 97] \o DotOnion \o <<47>> }

\* http.rs lines 38-42: client.get(url).send().  The client of tor.rs lines
\* 86-90 is built without a redirect policy, so it has reqwest's default
\* one and follows a redirect: when the service answers with a 3xx status
\* and a Location, send() issues a request to that location before it
\* returns.
F_Send ==
    /\ MainRuns
    /\ pc = "f_send"
    /\ \/ /\ net' = Append(net, Request(input.cmd.url, TRUE))
          /\ pc' = "f_body"
          /\ UNCHANGED result
       \/ /\ net' = Append(net, Request(input.cmd.url, FALSE))
          /\ Return(Err("RequestFailed", "send"))
       \/ \E loc \in RedirectTargets, ok \in BOOLEAN :
            /\ net' = net \o <<Request(input.cmd.url, TRUE), Request(loc, ok)>>
            /\ IF ok THEN pc' = "f_body" /\ UNCHANGED result
               ELSE Return(Err("RequestFailed", "send"))
    /\ UNCHANGED <<input, config, disc, torClient, wire, buf,
                   life, exit, hook, listener, sigint, emBy>>
    /\ MainFrame

\* http.rs lines 45-68
F_Body ==
    /\ MainRuns
    /\ pc = "f_body"
    /\ \/ pc' = "f_print" /\ UNCHANGED result
       \/ Return(Err("ResponseParsing", "body"))
    /\ UNCHANGED <<input, config, disc, torClient, net, wire, buf,
                   life, exit, hook, listener, sigint, emBy>>
    /\ MainFrame

\* main.rs lines 154-164
F_Print ==
    /\ MainRuns
    /\ pc = "f_print"
    /\ Return(Ok)
    /\ UNCHANGED <<input, config, disc, torClient, net, wire, buf,
                   life, exit, hook, listener, sigint, emBy>>
    /\ MainFrame

\* main.rs lines 174-175
S_ParsePort ==
    /\ MainRuns
    /\ pc = "s_port"
    /\ IF parse_u16(input.cmd.port).ok THEN pc' = "s_hex" /\ UNCHANGED result
       ELSE Return(Err("InvalidPort", "parse"))
    /\ UNCHANGED <<input, config, disc, torClient, net, wire, buf,
                   life, exit, hook, listener, sigint, emBy>>
    /\ MainFrame

\* main.rs line 182
S_FromHex ==
    /\ MainRuns
    /\ pc = "s_hex"
    /\ LET r == string_from_hex(input.cmd.hex).res IN
       IF r.ok
       THEN /\ buf' = [state |-> "live", data |-> r.data, len |-> Len(r.data)]
            /\ pc' = "s_validate"
            /\ UNCHANGED result
       ELSE Return(r) /\ UNCHANGED buf
    /\ UNCHANGED <<input, config, disc, torClient, net, wire,
                   life, exit, hook, listener, sigint, emBy>>
    /\ MainFrame

\* handle_stream returns res from inside stream_data's `?` or at its end:
\* sensitive_data goes out of scope
StreamReturn(res) ==
    /\ Return(res)
    /\ buf' = drop_sensitive(buf)

\* tcp.rs line 30
S_Validate ==
    /\ MainRuns
    /\ pc = "s_validate"
    /\ LET r == validate_onion_host(input.cmd.host) IN
       IF r.ok THEN pc' = "s_socks" /\ UNCHANGED <<result, buf>>
       ELSE StreamReturn(Err("SecurityValidation", r.why))
    /\ UNCHANGED <<input, config, disc, torClient, net, wire,
                   life, exit, hook, listener, sigint, emBy>>
    /\ MainFrame

Tunnel(host, port, ok) == [op |-> "socks", target |-> <<host, port>>, opened |-> ok]

\* tcp.rs line 33, tor.rs lines 97-109
S_Socks ==
    /\ MainRuns
    /\ pc = "s_socks"
    /\ LET port == parse_u16(input.cmd.port).val IN
       \/ /\ net' = Append(net, Tunnel(input.cmd.host, port, TRUE))
          /\ pc' = "s_write"
          /\ UNCHANGED <<result, buf>>
       \/ /\ net' = Append(net, Tunnel(input.cmd.host, port, FALSE))
          /\ StreamReturn(Err("TorClient", "socks"))
    /\ UNCHANGED <<input, config, disc, torClient, wire,
                   life, exit, hook, listener, sigint, emBy>>
    /\ MainFrame

\* tcp.rs line 36: write_all(data.as_bytes()) writes it all, or fails after
\* part of it
S_Write ==
    /\ MainRuns
    /\ pc = "s_write"
    /\ LET data == expose(buf) IN
       \/ /\ wire' = data
          /\ pc' = "s_flush"
          /\ UNCHANGED <<result, buf>>
       \/ /\ \E k \in {0, Len(data) \div 2} : wire' = SubSeq(data, 1, k)
          /\ StreamReturn(Err("Io", "write"))
    /\ UNCHANGED <<input, config, disc, torClient, net,
                   life, exit, hook, listener, sigint, emBy>>
    /\ MainFrame

\* tcp.rs line 37
S_Flush ==
    /\ MainRuns
    /\ pc = "s_flush"
    /\ \/ pc' = "s_read" /\ UNCHANGED <<result, buf>>
       \/ StreamReturn(Err("Io", "flush"))
    /\ UNCHANGED <<input, config, disc, torClient, net, wire,
                   life, exit, hook, listener, sigint, emBy>>
    /\ MainFrame

\* tcp.rs lines 40-43: read_to_end returns when the peer closes the
\* connection (Ok) or the connection breaks (Err); nothing bounds the wait,
\* the 30 s timeout of tor.rs lines 101-104 covers the connect alone
S_Read ==
    /\ MainRuns
    /\ pc = "s_read"
    /\ input.peerCloses
    /\ \/ pc' = "s_zeroize" /\ UNCHANGED <<result, buf>>
       \/ StreamReturn(Err("Io", "read"))
    /\ UNCHANGED <<input, config, disc, torClient, net, wire,
                   life, exit, hook, listener, sigint, emBy>>
    /\ MainFrame

\* main.rs line 184
S_Zeroize ==
    /\ MainRuns
    /\ pc = "s_zeroize"
    /\ buf' = zeroize(buf)
    /\ pc' = "s_print"
    /\ UNCHANGED <<input, config, disc, torClient, result, net, wire,
                   life, exit, hook, listener, sigint, emBy>>
    /\ MainFrame

\* main.rs lines 186-192
S_Print ==
    /\ MainRuns
    /\ pc = "s_print"
    /\ StreamReturn(Ok)
    /\ UNCHANGED <<input, config, disc, torClient, net, wire,
                   life, exit, hook, listener, sigint, emBy>>
    /\ MainFrame

\* main.rs lines 116-122
M_Exit ==
    /\ MainRuns
    /\ pc = "result"
    /\ ProcessExit(IF result.ok THEN "0" ELSE "1")
    /\ UNCHANGED <<input, pc, config, disc, torClient, result, net, wire, buf,
                   hook, listener, sigint, emBy>>
    /\ MainFrame

-----------------------------------------------------------------------------
(* security.rs lines 152-182: the panic hook, the Ctrl+C task, and           *)
(* emergency_exit                                                            *)

\* where the main task prints to standard output; println! panics when the
\* write fails
PrintPoints == {"check_print", "f_print", "s_print"}

\* lines 154-157 and 175: a panic on the main thread enters the hook, which
\* starts the emergency path on that thread
Fault ==
    /\ life = "Normal"
    /\ hook
    /\ pc \in PrintPoints
    /\ life' = "EmergencyShutdown"
    /\ emBy' = "fault"
    /\ UNCHANGED <<input, pc, config, disc, torClient, result, net, wire, buf,
                   exit, hook, listener, sigint>>
    /\ MainFrame

\* lines 160-161 and 166-168: the spawned task is polled for the first time;
\* signal::ctrl_c() registers the handler, or fails to
L_Register ==
    /\ life # "Terminated"
    /\ listener = "spawned"
    /\ \E l \in {"listening", "failed"} : listener' = l
    /\ UNCHANGED <<input, pc, config, disc, torClient, result, net, wire, buf,
                   life, exit, hook, sigint, emBy>>
    /\ MainFrame

\* the operator's interrupt.  With the handler registered the task resumes
\* (lines 162-164 and 175) and starts the emergency path; without it the
\* signal's default action ends the process.
SigInt ==
    /\ life # "Terminated"
    /\ ~sigint
    /\ sigint' = TRUE
    /\ IF listener = "listening"
       THEN /\ life' = "EmergencyShutdown"
            /\ emBy' = IF life = "Normal" THEN "interrupt" ELSE emBy
            /\ UNCHANGED exit
       ELSE /\ life' = "Terminated"
            /\ exit' = "SIGINT"
            /\ UNCHANGED emBy
    /\ UNCHANGED <<input, pc, config, disc, torClient, result, net, wire, buf,
                   hook, listener>>
    /\ MainFrame

\* line 181: process::exit(137), destructors do not run
emergency_exit ==
    /\ life = "EmergencyShutdown"
    /\ life' = "Terminated"
    /\ exit' = "137"
    /\ UNCHANGED <<input, pc, config, disc, torClient, result, net, wire, buf,
                   hook, listener, sigint, emBy>>
    /\ MainFrame

-----------------------------------------------------------------------------
(* The inputs of SpecHost: a segment of n chars, one of them possibly        *)
(* replaced by a char of another kind, followed by a suffix.                 *)

\* 'a', 'B', '7'
FillChars == <<97, 66, 55>>

\* '-', '.', ' ', '_', U+00E9 (two bytes in UTF-8), 'Z', '0'
DefectChars == {45, 46, 32, 95, 233, 90, 48}

\* ".onion", ".ONION", ".onio", "", ".onion.", "onion", ".onionx"
Suffixes ==
    { DotOnion, <<46, 79, 78, 73, 79, 78>>, <<46, 111, 110, 105, 111>>, <<>>,
      DotOnion \o <<46>>, <<111, 110, 105, 111, 110>>, DotOnion \o <<120>> }

Segment(n, p, d) ==
    [i \in 1..n |-> IF i = p THEN d ELSE FillChars[(i % Len(FillChars)) + 1]]

HostInputs ==
    { Segment(n, p, d) \o suf :
        n \in 0..MaxSeg, p \in 0..MaxSeg, d \in DefectChars, suf \in Suffixes }

HostInit ==
    /\ hostIn \in HostInputs
    /\ hostPc = "call"
    /\ hostRes = Ok

HostIdle ==
    /\ hostIn = <<>>
    /\ hostPc = "idle"
    /\ hostRes = Ok

\* a call of validate_onion_host
ValidateHost ==
    /\ hostPc = "call"
    /\ hostRes' = validate_onion_host(hostIn)
    /\ hostPc' = "done"
    /\ UNCHANGED hostIn
    /\ HostFrame

-----------------------------------------------------------------------------
(* The inputs of SpecHex: every string of at most MaxHexLen chars over       *)
(* HexAlphabet, and the hex::encode of byte sequences.                       *)

\* '1', '2', 'a', 'b', 'c', 'e', 'F', 'g', U+00E9
HexAlphabet == {49, 50, 97, 98, 99, 101, 70, 103, 233}

RawHexInputs == UNION { [1..n -> HexAlphabet] : n \in 0..MaxHexLen }

\* bytes on both sides of every boundary from_utf8_lossy tests
ByteSample ==
    { 0, 65, 127, 128, 143, 144, 159, 160, 161, 178, 191, 192, 193, 194, 195,
      223, 224, 225, 237, 238, 239, 240, 241, 244, 245, 255 }

ByteInputs ==
    {<<>>} \cup { <<b>> : b \in Byte }
           \cup UNION { [1..n -> ByteSample] : n \in 2..(MaxHexLen \div 2) }

NoBytes == [some |-> FALSE, bytes |-> <<>>]

HexInit ==
    /\ \/ hexSrc = NoBytes /\ hexIn \in RawHexInputs
       \/ \E b \in ByteInputs :
            /\ hexSrc = [some |-> TRUE, bytes |-> b]
            /\ hexIn = hex_encode(b)
    /\ hexForm \in {"string", "bytes"}
    /\ hexPc = "call"
    /\ hexPairs = 0
    /\ hexRes = Ok
    /\ hexFreed = <<>>

HexIdle ==
    /\ hexIn = <<>>
    /\ hexSrc = NoBytes
    /\ hexForm = "none"
    /\ hexPc = "idle"
    /\ hexPairs = 0
    /\ hexRes = Ok
    /\ hexFreed = <<>>

\* SensitiveString::from_hex, lines 27-35
SS_Validate ==
    /\ hexForm = "string"
    /\ hexPc = "call"
    /\ LET v == string_from_hex_validate(hexIn) IN
       IF v.ok THEN hexPc' = "validated" /\ UNCHANGED hexRes
       ELSE hexPc' = "done" /\ hexRes' = v
    /\ UNCHANGED <<hexIn, hexSrc, hexForm, hexPairs, hexFreed>>
    /\ HexFrame

\* SensitiveString::from_hex, lines 38-42
SS_Decode ==
    /\ hexForm = "string"
    /\ hexPc = "validated"
    /\ LET r == string_from_hex_decode(hexIn) IN
       /\ hexRes' = r.res
       /\ hexPairs' = r.pairs
       /\ hexFreed' = r.freed
    /\ hexPc' = "done"
    /\ UNCHANGED <<hexIn, hexSrc, hexForm>>
    /\ HexFrame

\* SensitiveBytes::from_hex, lines 82-86
SB_FromHex ==
    /\ hexForm = "bytes"
    /\ hexPc = "call"
    /\ LET r == bytes_from_hex(hexIn) IN
       /\ hexRes' = r.res
       /\ hexPairs' = r.pairs
       /\ hexFreed' = r.freed
    /\ hexPc' = "done"
    /\ UNCHANGED <<hexIn, hexSrc, hexForm>>
    /\ HexFrame

-----------------------------------------------------------------------------
(* SpecWipe's initial states. *)

WipeInit ==
    /\ fsExists \in BOOLEAN
    /\ fsLen \in 0..MaxFileLen
    /\ ~fsExists => fsLen = 0
    /\ wPath0 = [existed |-> fsExists, len |-> fsLen]
    /\ fsRandom = 0
    /\ fsSynced = TRUE
    /\ wPc = "call"
    /\ wFileSize = 0
    /\ wRemaining = 0
    /\ wOffset = 0
    /\ wChunks = <<>>
    /\ wIo = <<>>
    /\ wRes = Ok

WipeIdle ==
    /\ wPath0 = [existed |-> FALSE, len |-> 0]
    /\ fsExists = FALSE
    /\ fsLen = 0
    /\ fsRandom = 0
    /\ fsSynced = TRUE
    /\ wPc = "idle"
    /\ wFileSize = 0
    /\ wRemaining = 0
    /\ wOffset = 0
    /\ wChunks = <<>>
    /\ wIo = <<>>
    /\ wRes = Ok

-----------------------------------------------------------------------------
(* The inputs of Spec. *)

\* "10.0.0.5", "localhost"
LanHost == <<49, 48, 46, 48, 46, 48, 46, 53>>
LocalhostName == <<108, 111, 99, 97, 108, 104, 111, 115, 116>>

Unset == [set |-> FALSE, val |-> <<>>]
SetTo(v) == [set |-> TRUE, val |-> v]

ConfigFiles ==
    { [state |-> "absent", socks_host |-> <<>>, socks_port |-> 0],
      [state |-> "bad_json", socks_host |-> <<>>, socks_port |-> 0],
      [state |-> "ok", socks_host |-> LanHost, socks_port |-> SystemTorPort] }

\* ORC_SOCKS_HOST: unset, "localhost", ""
EnvHosts == {Unset, SetTo(LocalhostName), SetTo(<<>>)}

\* ORC_SOCKS_PORT: unset, "9999", "0", "x"
EnvPorts == {Unset, SetTo(<<57, 57, 57, 57>>), SetTo(<<48>>), SetTo(<<120>>)}

\* a 16-char onion host, and "short.onion"
GoodHost == Segment(V2Len, 0, 0) \o DotOnion
ShortHost == <<115, 104, 111, 114, 116>> \o DotOnion

\* "ftp://x.onion", "http://<GoodHost>/", "https://x.onion/", "http://a.io"
Urls ==
    { <<102, 116, 112, 58, 47, 47, 120>> \o DotOnion,
      HttpPrefix \o GoodHost \o <<47>>,
      HttpsPrefix \o <<120>> \o DotOnion \o <<47>>,
      HttpPrefix \o <<97, 46, 105, 111>> }

\* "80", "x"
PortOk == <<56, 48>>
PortBad == <<120>>

\* "a1b2", "4869", "abc", "zz", ""
HexA1B2 == <<97, 49, 98, 50>>
HexSamples == { HexA1B2, <<52, 56, 54, 57>>, <<97, 98, 99>>, <<122, 122>>, <<>> }

Cmd(kind, url, host, port, hex) ==
    [kind |-> kind, url |-> url, host |-> host, port |-> port, hex |-> hex]

Commands ==
    { Cmd("none", <<>>, <<>>, <<>>, <<>>), Cmd("check", <<>>, <<>>, <<>>, <<>>) }
    \cup { Cmd("fetch", u, <<>>, <<>>, <<>>) : u \in Urls }
    \cup { Cmd("stream", <<>>, GoodHost, PortOk, h) : h \in HexSamples }
    \cup { Cmd("stream", <<>>, ShortHost, PortOk, HexA1B2),
           Cmd("stream", <<>>, GoodHost, PortBad, HexA1B2) }

\* the candidates of one run: resolved address, Tor Browser, system Tor
Candidates == 1..3

\* peerCloses: the onion service, once the tunnel is open, sooner or later
\* closes or resets the connection; when it is FALSE the service keeps the
\* connection open and sends nothing more.  Only stream reads from a tunnel.
Inputs ==
    { in \in [file : ConfigFiles, envHost : EnvHosts, envPort : EnvPorts,
              reach : [Candidates -> BOOLEAN], cmd : Commands,
              peerCloses : BOOLEAN] :
        in.cmd.kind # "stream" => in.peerCloses }

NoDisc == [state |-> "idle", addresses |-> <<>>, idx |-> 0, inflight |-> 0,
           attempts |-> <<>>]

MainStart(in) ==
    /\ input = in
    /\ pc = "start"
    /\ config = Config_default
    /\ disc = NoDisc
    /\ torClient = NoClient
    /\ result = Ok
    /\ net = <<>>
    /\ wire = <<>>
    /\ buf = NoBuf
    /\ life = "Normal"
    /\ exit = "running"
    /\ hook = FALSE
    /\ listener = "none"
    /\ sigint = FALSE
    /\ emBy = "none"

MainInit == \E in \in Inputs : MainStart(in)

MainIdle ==
    /\ MainStart([file |-> [state |-> "absent", socks_host |-> <<>>, socks_port |-> 0],
                  envHost |-> Unset, envPort |-> Unset,
                  reach |-> [i \in Candidates |-> FALSE],
                  cmd |-> Cmd("none", <<>>, <<>>, <<>>, <<>>),
                  peerCloses |-> TRUE])

-----------------------------------------------------------------------------
(* The specifications. *)

InitHost == HostInit /\ HexIdle /\ WipeIdle /\ MainIdle

HostNext == ValidateHost

SpecHost == InitHost /\ [][HostNext]_vars

InitHex == HostIdle /\ HexInit /\ WipeIdle /\ MainIdle

HexNext ==
    \/ SS_Validate
    \/ SS_Decode
    \/ SB_FromHex

SpecHex == InitHex /\ [][HexNext]_vars

InitWipe == HostIdle /\ HexIdle /\ WipeInit /\ MainIdle

WipeNext ==
    \/ W_Exists
    \/ W_Open
    \/ W_SeekEnd
    \/ W_SeekStart
    \/ W_Write
    \/ W_Sync
    \/ W_Remove

SpecWipe == InitWipe /\ [][WipeNext]_vars

Init == HostIdle /\ HexIdle /\ WipeIdle /\ MainInit

Next ==
    \/ M_Install
    \/ M_LoadConfig
    \/ T_New
    \/ T_Begin
    \/ T_End
    \/ M_NoProxy
    \/ M_Dispatch
    \/ H_Check
    \/ H_CheckPrint
    \/ F_Validate
    \/ F_Client
    \/ F_Send
    \/ F_Body
    \/ F_Print
    \/ S_ParsePort
    \/ S_FromHex
    \/ S_Validate
    \/ S_Socks
    \/ S_Write
    \/ S_Flush
    \/ S_Read
    \/ S_Zeroize
    \/ S_Print
    \/ M_Exit
    \/ Fault
    \/ L_Register
    \/ SigInt
    \/ emergency_exit

Spec == Init /\ [][Next]_vars

\* One run of TorClient::new in a process that nothing interrupts: main up to
\* the return of discovery.  Each connect attempt ends, by an answer, an
\* error or the 5 s timeout of tor.rs line 47, and the loop then goes on, so
\* a step of discovery that can be taken is taken.
DiscoveryNext ==
    \/ M_Install
    \/ M_LoadConfig
    \/ T_New
    \/ T_Begin
    \/ T_End
    \/ M_NoProxy

\* discovery does not read the command: its runs start from every
\* configuration and every reachability of the candidates, with --check
InitDiscovery ==
    /\ HostIdle /\ HexIdle /\ WipeIdle
    /\ \E in \in Inputs : in.cmd.kind = "check" /\ MainStart(in)

\* One stream command in a process that nothing interrupts, under the
\* default configuration, with every candidate proxy up or every one down.  Every step the program can take
\* is taken in the end.
InitExchange ==
    /\ HostIdle /\ HexIdle /\ WipeIdle
    /\ \E in \in Inputs :
         /\ in.cmd.kind = "stream"
         /\ in.file.state = "absent" /\ ~in.envHost.set /\ ~in.envPort.set
         /\ in.reach[1] = in.reach[2] /\ in.reach[2] = in.reach[3]
         /\ MainStart(in)

ExchangeNext ==
    \/ M_Install
    \/ M_LoadConfig
    \/ T_New
    \/ T_Begin
    \/ T_End
    \/ M_NoProxy
    \/ M_Dispatch
    \/ S_ParsePort
    \/ S_FromHex
    \/ S_Validate
    \/ S_Socks
    \/ S_Write
    \/ S_Flush
    \/ S_Read
    \/ S_Zeroize
    \/ S_Print
    \/ M_Exit

SpecExchange == InitExchange /\ [][ExchangeNext]_vars /\ WF_vars(ExchangeNext)

SpecDiscovery == InitDiscovery /\ [][DiscoveryNext]_vars /\ WF_vars(DiscoveryNext)

-----------------------------------------------------------------------------
(* The claims. *)

\* the smallest member of a non-empty set of numbers
MinOf(S) == CHOOSE x \in S : \A y \in S : x <= y

\* candidate i is one whose bare connect succeeds: its address is one a
\* connection can be made to, and the proxy there accepts within the timeout
Connects(i) == ParsesAsSocketAddr(disc.addresses[i][1]) /\ input.reach[i]

ConnectingCandidates == {i \in 1..Len(disc.addresses) : Connects(i)}

\* C1: once TorClient::new has returned, if any candidate's bare connect
\* succeeds then the client returned is the candidate of lowest index among
\* them, whatever the reachability of the candidates after it; and a client
\* is returned only for such a candidate.
C1_FirstReachable ==
    disc.state \in {"found", "exhausted"} =>
        /\ ConnectingCandidates # {} =>
             LET a == disc.addresses[MinOf(ConnectingCandidates)] IN
             /\ disc.state = "found"
             /\ torClient = [some |-> TRUE, host |-> a[1], port |-> a[2]]
        /\ disc.state = "found" => ConnectingCandidates # {}

\* Scenario A: [9999 unreachable, 9150 reachable, 9050 reachable] gave 9150
C1_Witness ==
    /\ disc.state = "found"
    /\ disc.addresses = << <<Loopback, 9999>>, <<Loopback, 9150>>, <<Loopback, 9050>> >>
    /\ input.reach = <<FALSE, TRUE, TRUE>>
    /\ torClient = [some |-> TRUE, host |-> Loopback, port |-> 9150]

\* the grammar of the claim, counted in chars: a segment of exactly 16 or
\* exactly 56 ASCII alphanumerics, then ".onion"
OnionGrammar(h) ==
    /\ Len(h) >= Len(DotOnion)
    /\ \A k \in 1..Len(DotOnion) : h[Len(h) - Len(DotOnion) + k] = DotOnion[k]
    /\ Len(h) - Len(DotOnion) \in {16, 56}
    /\ \A i \in 1..(Len(h) - Len(DotOnion)) :
         h[i] \in (48..57) \cup (65..90) \cup (97..122)

\* C2: validate_onion_host returns Ok exactly for the strings that end in
\* ".onion" with a segment before it of exactly 16 or exactly 56 chars, all
\* ASCII alphanumeric; it rejects every other string.
C2_HostAcceptedIff ==
    hostPc = "done" => (hostRes.ok <=> OnionGrammar(hostIn))

\* a 56-char host was accepted
C2_Witness ==
    /\ hostPc = "done"
    /\ hostRes.ok
    /\ Len(hostIn) = 56 + Len(DotOnion)

\* a URL that validation must refuse: a scheme that is not http or https, no
\* host the URL parser yields, or a host outside the onion grammar
InvalidUrl(url) ==
    \/ ~StartsWith(url, HttpPrefix) /\ ~StartsWith(url, HttpsPrefix)
    \/ ~url_host(url).ok
    \/ ~OnionGrammar(url_host(url).host)

FetchOfInvalidUrl == input.cmd.kind = "fetch" /\ InvalidUrl(input.cmd.url)

ValidationErrorReturned ==
    pc = "result" /\ ~result.ok /\ result.kind = "SecurityValidation"

\* C3 as stated: when fetch of an invalid URL has produced its error, the
\* process has opened no network connection of any kind.
C3_NoConnectionAtAll ==
    (FetchOfInvalidUrl /\ ValidationErrorReturned) =>
        \A i \in 1..Len(net) : ~net[i].opened

\* C3 as amended: in a fetch of an invalid URL, fetch_url returns the
\* validation error and makes no network call of its own: no HTTP request is
\* sent and no tunnel opened at any moment of the run.  The connections the
\* process has made by then are the bare-connect probes of proxy discovery,
\* which runs before the command is handled and has connected to the proxy
\* it chose.
C3_NoCallByFetch ==
    FetchOfInvalidUrl =>
        /\ \A i \in 1..Len(net) : net[i].op = "probe"
        /\ pc = "result" =>
             /\ ValidationErrorReturned
             /\ \E i \in 1..Len(net) :
                  /\ net[i].opened
                  /\ net[i].target = <<torClient.host, torClient.port>>

\* fetch of "ftp://x.onion" has returned the validation error
C3_Witness ==
    /\ input.cmd.kind = "fetch"
    /\ input.cmd.url = <<102, 116, 112, 58, 47, 47, 120>> \o DotOnion
    /\ ValidationErrorReturned
    /\ result.why = "scheme"

\* the bytes a valid hex string stands for, pair by pair
RECURSIVE HexValue(_)
HexValue(h) ==
    IF Len(h) < 2 THEN <<>>
    ELSE <<16 * hex_val(h[1]) + hex_val(h[2])>> \o HexValue(SubSeq(h, 3, Len(h)))

\* even length and hex digits only
ValidHex(h) ==
    /\ Len(h) % 2 = 0
    /\ \A i \in 1..Len(h) : h[i] \in (48..57) \cup (65..70) \cup (97..102)

\* C4: in the stream command, once write_all has written the payload, the
\* bytes in the tunnel are exactly the bytes the hex input decodes to.
C4_WireIsDecodedHex ==
    (input.cmd.kind = "stream" /\ pc = "s_flush") =>
        wire = HexValue(input.cmd.hex)

\* C5: for bytes b, from_hex(hex::encode(b)) succeeds and its byte view is b,
\* in the string form and in the byte form.
C5_HexRoundTrip ==
    (hexSrc.some /\ hexPc = "done") =>
        /\ hexRes.ok
        /\ expose_bytes(hexRes) = hexSrc.bytes

\* C6: from_hex returns InvalidHex exactly for the inputs of odd length or
\* with a char that is no hex digit, and accepts every other input; when it
\* rejects, it has decoded no part of the input.
C6_RejectedBeforeDecoding ==
    hexPc = "done" =>
        /\ hexRes.ok <=> ValidHex(hexIn)
        /\ ~hexRes.ok => (hexRes.kind = "InvalidHex" /\ hexPairs = 0)

\* handle_stream has returned to main
StreamReturned == input.cmd.kind = "stream" /\ pc = "result"

\* C7: a sensitive buffer that has been released holds only zero bytes, and
\* handle_stream returns, on every path, with sensitive_data either never
\* built (the port or the hex was refused) or released.
C7_WipedOnEveryReturn ==
    /\ buf.state = "freed" => AllZero(buf.data)
    /\ StreamReturned =>
         \/ buf.state = "freed"
         \/ /\ buf.state = "none"
            /\ ~result.ok
            /\ result.kind \in {"InvalidPort", "InvalidHex"}

\* a payload with non-zero bytes went into the tunnel, the read failed, and
\* handle_stream returned the error
C7_Witness ==
    /\ StreamReturned
    /\ ~result.ok
    /\ result.why = "read"
    /\ wire # <<>>
    /\ ~AllZero(wire)
    /\ buf.state = "freed"
    /\ Len(buf.data) = Len(wire)

\* C8: whenever the process has terminated with status 0, 1 or 137, the
\* decoded payload has been zeroed.
C8_ScrubbedOnEveryExit ==
    (life = "Terminated" /\ exit \in {"0", "1", "137"}) => AllZero(buf.data)

\* the chunks that cover L bytes: ceil(L / 4096) chunks of 4096 bytes, the
\* last of L mod 4096 bytes when that is not zero
ExpectedChunks(L) ==
    [k \in 1..((L + 4095) \div 4096) |-> IF k * 4096 <= L THEN 4096 ELSE L % 4096]

WipeRemoved == \E i \in 1..Len(wIo) : wIo[i] = "remove"

\* the operations a wipe that writes n chunks performs, in order
WipeOps(n) ==
    <<"exists", "open", "seek", "seek">> \o [k \in 1..n |-> "write"] \o <<"sync", "remove">>

EmergencyStarted == emBy # "none"

\* C11: once the panic hook or the Ctrl+C task has started the emergency
\* path, the process ends with status 137 and with no other: whatever the
\* main task does meanwhile, a process that entered EmergencyShutdown is
\* never found terminated with another status.
C11_EmergencyEndsIn137 ==
    (EmergencyStarted /\ life = "Terminated") => exit = "137"

\* main ended the process through one of its own error exits: the
\* configuration did not load, no proxy was found, no command was given, or
\* the handler returned an error
HandledError ==
    \/ pc = "load"
    \/ pc = "try" /\ disc.state = "exhausted"
    \/ pc = "dispatch" /\ input.cmd.kind = "none"
    \/ pc = "result" /\ ~result.ok

\* C12: a run that got past argument parsing and has terminated shows one
\* of the statuses 0, 1, 137: 0 only when the handler of the selected
\* operation returned Ok, 1 only from one of main's handled errors, 137
\* only when the emergency path was started.
C12_ExitCodes ==
    (life = "Terminated" /\ pc # "start") =>
        /\ exit \in {"0", "1", "137"}
        /\ exit = "0" => (pc = "result" /\ result.ok)
        /\ exit = "1" => HandledError
        /\ exit = "137" => EmergencyStarted

\* the attempt on list position j ended in failure
AttemptFailed(j) == ~disc.attempts[j].res.ok

\* C13: a candidate that fails, by a connect error, a timeout or an address
\* that does not parse, ends its own attempt only: the attempts cover the
\* list positions in order without a gap, while discovery runs the next
\* position to try is the one after the last failure, a failure at a
\* position that is not the last is followed by an attempt on the next one,
\* and discovery ends in NoTorProxy exactly when every position of the list
\* was attempted and failed, which is exactly when no candidate connects.
C13_FailureIsPerCandidate ==
    /\ \A j \in 1..Len(disc.attempts) : disc.attempts[j].idx = j
    /\ disc.state = "trying" =>
         /\ disc.idx = Len(disc.attempts) + 1
         /\ \A j \in 1..Len(disc.attempts) : AttemptFailed(j)
    /\ disc.state \in {"found", "exhausted"} =>
         /\ \A j \in 1..Len(disc.attempts) :
              (AttemptFailed(j) /\ j < Len(disc.addresses)) => Len(disc.attempts) > j
         /\ (disc.state = "exhausted") <=>
              /\ Len(disc.attempts) = Len(disc.addresses)
              /\ \A j \in 1..Len(disc.attempts) : AttemptFailed(j)
         /\ (disc.state = "exhausted") <=> (ConnectingCandidates = {})

\* the third candidate was chosen after the first did not parse and the
\* second timed out
C13_Witness ==
    /\ disc.state = "found"
    /\ Len(disc.attempts) = 3
    /\ disc.attempts[1].res = Err("AddressResolution", "parse")
    /\ disc.attempts[2].res = Err("ConnectionFailed", "timeout")
    /\ disc.attempts[3].res.ok
    /\ torClient.port = SystemTorPort

\* the host that a tunnel or an HTTP request names passed validate_onion_host
NamesValidatedHost(c) ==
    CASE c.op = "http" ->
           /\ StartsWith(c.target, HttpPrefix) \/ StartsWith(c.target, HttpsPrefix)
           /\ url_host(c.target).ok
           /\ validate_onion_host(url_host(c.target).host).ok
      [] c.op = "socks" -> validate_onion_host(c.target[1]).ok
      [] OTHER -> TRUE

\* C14: every SOCKS tunnel opened and every HTTP request issued by a
\* gateway operation names a host that passed validate_onion_host, and an
\* operation whose target failed validation has attempted no tunnel and no
\* request.
C14_OnlyValidatedTargets ==
    /\ \A i \in 1..Len(net) : NamesValidatedHost(net[i])
    /\ (input.cmd.kind = "fetch" /\ ~validate_onion_url(input.cmd.url).ok) =>
           \A i \in 1..Len(net) : net[i].op # "http"
    /\ (input.cmd.kind = "stream" /\ ~validate_onion_host(input.cmd.host).ok) =>
           \A i \in 1..Len(net) : net[i].op # "socks"

\* the addresses that this discovery run tried to reach
AttemptedAddresses == { disc.addresses[disc.attempts[j].idx] : j \in 1..Len(disc.attempts) }

\* C15: when discovery has failed, the message that main prints names every
\* address that the run attempted.
C15_AllAttemptedListed ==
    (disc.state = "exhausted" /\ exit = "1") =>
        AttemptedAddresses \subseteq NoProxyMessageAddresses

\* the proxy host and port that configuration precedence resolves to: the
\* environment variable when it is set, otherwise the value of the config
\* file when there is one, otherwise the built-in default
ResolvedHost ==
    IF input.envHost.set THEN input.envHost.val
    ELSE IF input.file.state = "ok" THEN input.file.socks_host
    ELSE Loopback

ResolvedPort ==
    IF input.envPort.set THEN DecValue(input.envPort.val)
    ELSE IF input.file.state = "ok" THEN input.file.socks_port
    ELSE DefaultSocksPort

\* C16: the candidate list of a discovery run is, in this order, the
\* resolved address, 127.0.0.1:9150, 127.0.0.1:9050, and stays so for the
\* whole run.
C16_CandidateOrder ==
    disc.state # "idle" =>
        disc.addresses = << <<ResolvedHost, ResolvedPort>>,
                            <<Loopback, 9150>>,
                            <<Loopback, 9050>> >>

\* a run whose host comes from ORC_SOCKS_HOST and whose port comes from the
\* config file has tried all three candidates
C16_Witness ==
    /\ input.envHost = SetTo(LocalhostName)
    /\ ~input.envPort.set
    /\ input.file.state = "ok"
    /\ disc.state = "exhausted"
    /\ disc.addresses[1] = <<LocalhostName, input.file.socks_port>>
    /\ Len(disc.attempts) = 3

\* C17: discovery's connect attempts are sequential.  An attempt begins only
\* when no other attempt is in flight and none has succeeded; it is the
\* attempt on the list position after the last attempt that finished, and
\* every attempt that finished before it ended in failure.
C17_Sequential ==
    [][ (disc'.inflight # 0 /\ disc'.inflight # disc.inflight) =>
            /\ disc.inflight = 0
            /\ disc.state = "trying"
            /\ disc'.inflight = Len(disc.attempts) + 1
            /\ \A j \in 1..Len(disc.attempts) : ~disc.attempts[j].res.ok ]_vars

\* the attempt on the second candidate is in flight, after the attempt on
\* the first has ended in a timeout
C17_Witness ==
    /\ disc.state = "trying"
    /\ disc.inflight = 2
    /\ Len(disc.attempts) = 1
    /\ disc.attempts[1].res = Err("ConnectionFailed", "timeout")

DiscoveryTransitions ==
    { <<"idle", "trying">>, <<"trying", "found">>, <<"trying", "exhausted">> }

\* C19: discovery moves idle -> Trying(1), Trying(i) -> Found on success,
\* Trying(i) -> Trying(i+1) on failure, Trying(last) -> Exhausted on
\* failure.  The candidate index never goes down, an attempt is never begun
\* on a list position that was attempted before, no list position has more
\* than one attempt, and a run that is trying ends in Found or Exhausted.
C19_DiscoveryStateMachine ==
    /\ [][ /\ disc'.state # disc.state => <<disc.state, disc'.state>> \in DiscoveryTransitions
           /\ disc.state = "trying" => disc'.idx \in {disc.idx, disc.idx + 1}
           /\ (disc.state = "trying" /\ disc'.idx = disc.idx + 1) =>
                  (disc.inflight = disc.idx /\ disc'.state = "trying")
           /\ (disc.state = "trying" /\ disc'.state = "found") => disc.inflight = disc.idx
           /\ (disc.state = "trying" /\ disc'.state = "exhausted") =>
                  disc.idx = Len(disc.addresses) + 1
           /\ (disc'.inflight # 0 /\ disc'.inflight # disc.inflight) =>
                  \A j \in 1..Len(disc.attempts) : disc.attempts[j].idx < disc'.inflight ]_vars
    /\ [](\A j, k \in 1..Len(disc.attempts) :
             j # k => disc.attempts[j].idx # disc.attempts[k].idx)
    /\ [](Len(disc.attempts) <= Len(disc.addresses))
    /\ (disc.state = "trying") ~> (disc.state \in {"found", "exhausted"})

\* discovery has gone through Trying(1), Trying(2), Trying(3) to Exhausted
C19_Witness ==
    /\ disc.state = "exhausted"
    /\ disc.idx = Len(disc.addresses) + 1
    /\ [j \in 1..Len(disc.attempts) |-> disc.attempts[j].idx] = <<1, 2, 3>>

\* s is the beginning of t
IsPrefix(s, t) == Len(s) <= Len(t) /\ SubSeq(t, 1, Len(s)) = s

\* C20: when a step of the overwrite fails (open, seek, a chunk write, the
\* flush) the call returns the error at once, having made each file-system
\* call at most once and in order, and it has not deleted the path: the
\* file is still there.  remove_file is called only when all L bytes were
\* written and the flush succeeded.
C20_FailureLeavesFile ==
    wPath0.existed =>
        /\ IsPrefix(wIo, WipeOps(Len(ExpectedChunks(wPath0.len))))
        /\ (wPc = "done" /\ ~wRes.ok) =>
             /\ wRes = IoErr
             /\ fsExists
             /\ wIo[Len(wIo)] # "remove" => ~WipeRemoved
        /\ (wPc = "done" /\ ~wRes.ok /\ ~WipeRemoved) =>
             /\ fsExists
             /\ fsLen = wPath0.len
             /\ fsRandom <= wPath0.len
        /\ WipeRemoved =>
             /\ SumSeq(wChunks) = wPath0.len
             /\ fsSynced
             /\ \E i \in 1..(Len(wIo) - 1) : wIo[i] = "sync" /\ wIo[i + 1] = "remove"

\* the second chunk write of a 10000-byte file failed after part of the
\* chunk: the call returned the error and the file is still there, partly
\* overwritten
C20_Witness ==
    /\ wPath0 = [existed |-> TRUE, len |-> 10000]
    /\ wPc = "done"
    /\ wRes = IoErr
    /\ wIo = <<"exists", "open", "seek", "seek", "write", "write">>
    /\ wChunks = <<4096>>
    /\ fsRandom = 4096 + 2048
    /\ fsExists

\* C21: a TCP exchange that has been started returns: from the moment
\* stream_data is entered, its result or its error reaches handle_stream's
\* caller, whatever the peer does with the open tunnel.
C21_ExchangeReturns ==
    (pc = "s_validate") ~> (pc = "result")

\* C22: once install_panic_handlers has run, the process is never in the
\* Normal state without the interrupt listener in place, and a run that an
\* interrupt reached in the Normal state after that has, when it is over,
\* ended with status 137.
C22_InterruptAlwaysRouted ==
    /\ (hook /\ life = "Normal") => listener = "listening"
    /\ (hook /\ sigint /\ life = "Terminated" /\ emBy # "fault") => exit = "137"

\* C23: when from_hex has returned a buffer, the decoded payload is held by
\* the buffer's own storage alone: every other storage that from_hex used
\* for decoded bytes either was never released separately or held only
\* zeros when it was released.
C23_NoUntrackedCopy ==
    (hexPc = "done" /\ hexRes.ok) =>
        \A i \in 1..Len(hexFreed) : AllZero(hexFreed[i])

\* C24: a wipe of a wiped buffer changes nothing, and a wiped buffer gives
\* no byte of the payload to a reader.  On the success path of handle_stream,
\* after the explicit zeroize, the storage is all zero, the buffer reads as
\* empty and one more wipe would leave it as it is; after the wipe at the
\* end of the scope the storage is the same all-zero storage and still
\* reads as empty.
C24_WipeIdempotent ==
    /\ (input.cmd.kind = "stream" /\ pc = "s_print") =>
         /\ buf.state = "live"
         /\ AllZero(buf.data)
         /\ expose(buf) = <<>>
         /\ zeroize(buf) = buf
         /\ drop_sensitive(buf).data = buf.data
    /\ (input.cmd.kind = "stream" /\ pc = "result" /\ result.ok) =>
         /\ buf.state = "freed"
         /\ AllZero(buf.data)
         /\ Len(buf.data) = Len(from_utf8_lossy(HexValue(input.cmd.hex)))
         /\ expose(buf) = <<>>
         /\ zeroize(buf) = buf

\* the payload "Hi" (hex 4869) was sent, wiped by the explicit zeroize and
\* wiped again when handle_stream returned Ok
C24_Witness ==
    /\ input.cmd.hex = <<52, 56, 54, 57>>
    /\ pc = "result"
    /\ result = Ok
    /\ wire = <<72, 105>>
    /\ buf = [state |-> "freed", data |-> <<0, 0>>, len |-> 0]

=============================================================================
